---- MODULE Spec2Model ----
(***************************************************************************)
(* A model of itk::PasteImageFilter (itkPasteImageFilter.hxx): the filter  *)
(* that pastes the SourceRegion of a source image into a destination image *)
(* at DestinationIndex.  Images are two-dimensional; every cell of the     *)
(* destination and of the source carries a value that names its origin,    *)
(* so that any cell of the output tells where its value was copied from.   *)
(***************************************************************************)
EXTENDS Integers, Sequences, FiniteSets, TLC

(* ------------------------------ bounds --------------------------------- *)
\* extent of the destination image (and of the output, which has its shape)
GridW == 2
GridH == 2
\* extent of the source image
SrcW == 2
SrcH == 1
\* largest number of regions the scheduler splits the requested region into
MaxThreads == 2

(* ------------------------- regions (RegionAlgebra) --------------------- *)
\* ImageRegion: an index and a size per dimension
Region(index, size) == [index |-> index, size |-> size]

\* a default-constructed ImageRegion, as the locals of lines 122, 123, 159
DefaultRegion == Region(<<0, 0>>, <<0, 0>>)

\* the cells of a region; a region with a zero size component has none
Cells(r) ==
  {<<x, y>> : x \in r.index[1] .. (r.index[1] + r.size[1] - 1),
              y \in r.index[2] .. (r.index[2] + r.size[2] - 1)}

\* ImageRegion::IsInside(region): r lies inside outer
IsInside(outer, r) ==
  \A d \in 1..2 : /\ r.index[d] >= outer.index[d]
                  /\ r.index[d] + r.size[d] <= outer.index[d] + outer.size[d]

Max(a, b) == IF a >= b THEN a ELSE b
Min(a, b) == IF a <= b THEN a ELSE b

\* the length of the overlap of a and b along dimension d
OverlapLength(a, b, d) ==
  Min(a.index[d] + a.size[d], b.index[d] + b.size[d]) - Max(a.index[d], b.index[d])

\* ImageRegion::Crop: a.Crop(b) returns whether a can be cropped by b and
\* leaves in a the intersection; a is left as it was when it cannot
Crop(a, b) ==
  LET possible == \A d \in 1..2 : OverlapLength(a, b, d) > 0
  IN  [possible |-> possible,
       region   |-> IF possible
                    THEN Region([d \in 1..2 |-> Max(a.index[d], b.index[d])],
                                [d \in 1..2 |-> OverlapLength(a, b, d)])
                    ELSE a]

\* Index + Offset and Index - Index
Plus(i, o) == [d \in 1..2 |-> i[d] + o[d]]
Minus(i, j) == [d \in 1..2 |-> i[d] - j[d]]

(* ------------------------------ images --------------------------------- *)
\* the valid (largest possible and buffered) regions of the two inputs
DestinationGrid == Region(<<0, 0>>, <<GridW, GridH>>)
SourceGrid == Region(<<0, 0>>, <<SrcW, SrcH>>)

\* the pixel containers: "dest" and "src" belong to the inputs, "out" is the
\* container the output allocates when the filter does not run in place
Stores == {"dest", "src", "out"}

StoreGrid(s) == IF s = "src" THEN SourceGrid ELSE DestinationGrid

\* the contents of the containers before the filter runs
InitialBuffers ==
  [s \in Stores |-> [c \in Cells(StoreGrid(s)) |-> <<s, c>>]]

\* every region with no empty dimension inside a grid
RegionsIn(g) ==
  {Region(<<x, y>>, <<w, h>>) :
     x \in g.index[1] .. (g.index[1] + g.size[1] - 1),
     y \in g.index[2] .. (g.index[2] + g.size[2] - 1),
     w \in 1 .. g.size[1], h \in 1 .. g.size[2]}

NonEmptyRegionsInside(g) == {r \in RegionsIn(g) : IsInside(g, r)}

\* the values SetDestinationIndex is called with
DestinationIndexes == Cells(DestinationGrid)

\* the values SetSourceRegion is called with: the regions that start in the
\* source image, of any size up to the image's (some leave the image), and
\* the empty region
SourceRegions ==
  RegionsIn(SourceGrid) \cup {DefaultRegion}

\* the two ways of cutting a region in two along one dimension
Splits(r) ==
  {<<Region(r.index, <<k, r.size[2]>>),
     Region(<<r.index[1] + k, r.index[2]>>, <<r.size[1] - k, r.size[2]>>)>> :
       k \in 1 .. (r.size[1] - 1)}
  \cup
  {<<Region(r.index, <<r.size[1], k>>),
     Region(<<r.index[1], r.index[2] + k>>, <<r.size[1], r.size[2] - k>>)>> :
       k \in 1 .. (r.size[2] - 1)}

\* the coverings of r by at most n pairwise disjoint regions
RECURSIVE Coverings(_, _)
Coverings(r, n) ==
  IF n <= 1
  THEN {{r}}
  ELSE {{r}} \cup
       UNION {UNION {{A \cup B : A \in Coverings(s[1], k),
                                 B \in Coverings(s[2], n - k)} : k \in 1 .. (n - 1)} :
                s \in Splits(r)}

(* ------------------------------- state --------------------------------- *)
VARIABLES
  m_DestinationIndex,  \* where the source region is pasted in the destination
  m_SourceRegion,      \* the region of the source image that is pasted
  m_InPlace,           \* the InPlace flag (InPlaceOn / InPlaceOff)
  canRunInPlace,       \* CanRunInPlace(): input and output images have one type
  attached,            \* which of "dest" (input 0), "src" (input 1), "out" exist
  requestedRegion,     \* per image, the requested region when one is set
  phase,               \* "config", "requested", "error", "running"
  buffers,             \* the contents of every pixel container
  outputStore,         \* the container the output image writes to
  pc,                  \* per scheduled region, where its thread stands
  calls                \* per scheduled region, the ImageAlgorithm::Copy calls it issued

vars == <<m_DestinationIndex, m_SourceRegion, m_InPlace, canRunInPlace, attached,
          requestedRegion, phase, buffers, outputStore, pc, calls>>

Images == {"dest", "src", "out"}

\* the region an image is asked for (DefaultRegion when none is set)
RequestedOf(img) ==
  IF requestedRegion[img] = {} THEN DefaultRegion
  ELSE CHOOSE r \in requestedRegion[img] : TRUE

\* PasteImageFilter(): InPlaceOff(), m_DestinationIndex.Fill(0); no input is
\* connected and m_SourceRegion is a default-constructed region
Init ==
  /\ m_DestinationIndex = <<0, 0>>
  /\ m_SourceRegion = DefaultRegion
  /\ m_InPlace = FALSE
  /\ canRunInPlace \in BOOLEAN
  /\ attached \in {{}, {"out"}}
  /\ requestedRegion = [i \in Images |-> {}]
  /\ phase = "config"
  /\ buffers = InitialBuffers
  /\ outputStore = "out"
  /\ pc = <<>>
  /\ calls = <<>>

(* --------------------------- configuration ----------------------------- *)
SetDestinationIndex(i) ==
  /\ phase = "config"
  /\ m_DestinationIndex # i
  /\ m_DestinationIndex' = i
  /\ UNCHANGED <<m_SourceRegion, m_InPlace, canRunInPlace, attached,
                 requestedRegion, phase, buffers, outputStore, pc, calls>>

SetSourceRegion(r) ==
  /\ phase = "config"
  /\ m_SourceRegion # r
  /\ m_SourceRegion' = r
  /\ UNCHANGED <<m_DestinationIndex, m_InPlace, canRunInPlace, attached,
                 requestedRegion, phase, buffers, outputStore, pc, calls>>

InPlaceOn ==
  /\ phase = "config"
  /\ ~m_InPlace
  /\ m_InPlace' = TRUE
  /\ UNCHANGED <<m_DestinationIndex, m_SourceRegion, canRunInPlace, attached,
                 requestedRegion, phase, buffers, outputStore, pc, calls>>

InPlaceOff ==
  /\ phase = "config"
  /\ m_InPlace
  /\ m_InPlace' = FALSE
  /\ UNCHANGED <<m_DestinationIndex, m_SourceRegion, canRunInPlace, attached,
                 requestedRegion, phase, buffers, outputStore, pc, calls>>

\* SetNthInput(0, src)
SetDestinationImage ==
  /\ phase = "config"
  /\ "dest" \notin attached
  /\ attached' = attached \cup {"dest"}
  /\ UNCHANGED <<m_DestinationIndex, m_SourceRegion, m_InPlace, canRunInPlace,
                 requestedRegion, phase, buffers, outputStore, pc, calls>>

\* SetNthInput(1, src)
SetSourceImage ==
  /\ phase = "config"
  /\ "src" \notin attached
  /\ attached' = attached \cup {"src"}
  /\ UNCHANGED <<m_DestinationIndex, m_SourceRegion, m_InPlace, canRunInPlace,
                 requestedRegion, phase, buffers, outputStore, pc, calls>>

(* -------------------------- demand propagation ------------------------- *)
\* what Superclass::GenerateInputRequestedRegion() may leave behind, given the
\* requests rq on entry: the inputs' requests untouched, or every connected
\* input asked for the output's requested region
SuperclassRequests(rq) ==
  {rq, [i \in Images |-> IF i \in attached \ {"out"} THEN rq["out"] ELSE rq[i]]}

\* a faulty variant of OwnRequests: the two requests are given to the wrong
\* inputs
OwnRequestsSwapped(rq) ==
  IF "dest" \notin attached \/ "src" \notin attached \/ "out" \notin attached
  THEN rq
  ELSE [rq EXCEPT !["dest"] = {m_SourceRegion}, !["src"] = rq["out"]]

\* the body of GenerateInputRequestedRegion after the superclass call, on the
\* requests rq the superclass left
OwnRequests(rq) ==
  IF "dest" \notin attached \/ "src" \notin attached \/ "out" \notin attached
  THEN rq
  ELSE [rq EXCEPT !["src"] = {m_SourceRegion}, !["dest"] = rq["out"]]

\* the consumer asks the output for req (when there is an output), then the
\* pipeline calls GenerateInputRequestedRegion
GenerateInputRequestedRegion(req) ==
  /\ phase = "config"
  /\ LET asked == [requestedRegion EXCEPT
                     !["out"] = IF "out" \in attached THEN {req} ELSE {}]
     IN  \E rq \in SuperclassRequests(asked) :
           requestedRegion' = OwnRequests(rq)
  /\ phase' = "requested"
  /\ UNCHANGED <<m_DestinationIndex, m_SourceRegion, m_InPlace, canRunInPlace,
                 attached, buffers, outputStore, pc, calls>>

\* the source image is asked for a region it does not have
InvalidRequest ==
  ~IsInside(SourceGrid, RequestedOf("src"))

\* the upstream pipeline refuses a request outside the source image
PropagateRequestedRegionFails ==
  /\ phase = "requested"
  /\ attached = Images
  /\ InvalidRequest
  /\ phase' = "error"
  /\ UNCHANGED <<m_DestinationIndex, m_SourceRegion, m_InPlace, canRunInPlace,
                 attached, requestedRegion, buffers, outputStore, pc, calls>>

(* ------------------------------ execution ------------------------------ *)
\* GetInPlace() && CanRunInPlace()
RunsInPlace == m_InPlace /\ canRunInPlace

\* AllocateOutputs, then the scheduler hands out the regions of parts, one
\* ThreadedGenerateData call each
Dispatch(parts) ==
  /\ phase = "requested"
  /\ attached = Images
  /\ ~InvalidRequest
  /\ phase' = "running"
  /\ outputStore' = IF RunsInPlace THEN "dest" ELSE "out"
  /\ pc' = [p \in parts |-> "start"]
  /\ calls' = [p \in parts |-> <<>>]
  /\ UNCHANGED <<m_DestinationIndex, m_SourceRegion, m_InPlace, canRunInPlace,
                 attached, requestedRegion, buffers>>

\* the scheduler splits the output's requested region into disjoint regions
BeforeThreadedGenerateData ==
  /\ phase = "requested"
  /\ \E parts \in Coverings(RequestedOf("out"), MaxThreads) : Dispatch(parts)

\* ImageAlgorithm::Copy(in, out, inRegion, outRegion) on the containers b
Copy(b, in, out, inRegion, outRegion) ==
  [b EXCEPT ![out] =
     [c \in DOMAIN b[out] |->
        IF c \in Cells(outRegion)
        THEN b[in][Plus(inRegion.index, Minus(c, outRegion.index))]
        ELSE b[out][c]]]

\* the record of one ImageAlgorithm::Copy call
CopyCall(in, inRegion, outRegion) ==
  [from |-> in, inRegion |-> inRegion, outRegion |-> outRegion]

\* a faulty variant of CropToThread: the paste region is tested against the
\* thread's region but not cut down to it
CropToThreadUncropped(p) ==
  [possible |-> Crop(Region(m_DestinationIndex, m_SourceRegion.size), p).possible,
   region   |-> Region(m_DestinationIndex, m_SourceRegion.size)]

\* lines 121-137: the paste region in the destination, cropped by the thread's
CropToThread(p) == Crop(Region(m_DestinationIndex, m_SourceRegion.size), p)

UseSource(p) == CropToThread(p).possible

SourceRegionInDestinationImageCropped(p) ==
  IF UseSource(p) THEN CropToThread(p).region ELSE DefaultRegion

\* lines 142-155
UseOnlySource(p) ==
  UseSource(p) /\ SourceRegionInDestinationImageCropped(p) = p

\* a faulty variant of SourceRegionInSourceImageCropped: the region read keeps
\* the size of SourceRegion instead of taking the cropped size
SourceRegionInSourceImageCroppedFullSize(p) ==
  IF UseSource(p)
  THEN Region(Plus(SourceRegionInDestinationImageCropped(p).index,
                   Minus(m_SourceRegion.index, m_DestinationIndex)),
              m_SourceRegion.size)
  ELSE DefaultRegion

\* a faulty variant of SourceRegionInSourceImageCropped: the source is read
\* from the start of SourceRegion, whatever was cropped from the paste region
SourceRegionInSourceImageCroppedUnshifted(p) ==
  IF UseSource(p)
  THEN Region(m_SourceRegion.index, SourceRegionInDestinationImageCropped(p).size)
  ELSE DefaultRegion

\* lines 159-174
SourceRegionInSourceImageCropped(p) ==
  IF UseSource(p)
  THEN Region(Plus(SourceRegionInDestinationImageCropped(p).index,
                   Minus(m_SourceRegion.index, m_DestinationIndex)),
              SourceRegionInDestinationImageCropped(p).size)
  ELSE DefaultRegion

\* two faulty variants of CopiesDestinationFirst: the destination is never
\* copied in the third case, and it is copied in place as well
CopiesDestinationFirstNever == FALSE
CopiesDestinationFirstAlways == TRUE

\* line 220: whether the third case copies the destination first
CopiesDestinationFirst == ~RunsInPlace

\* lines 189-197, case 1
CopyDestination(p) ==
  /\ phase = "running"
  /\ p \in DOMAIN pc
  /\ pc[p] = "start"
  /\ ~UseSource(p) /\ ~RunsInPlace
  /\ buffers' = Copy(buffers, "dest", outputStore, p, p)
  /\ calls' = [calls EXCEPT ![p] = Append(@, CopyCall("dest", p, p))]
  /\ pc' = [pc EXCEPT ![p] = "done"]
  /\ UNCHANGED <<m_DestinationIndex, m_SourceRegion, m_InPlace, canRunInPlace,
                 attached, requestedRegion, phase, outputStore>>

\* lines 198-206, case 2
CopySource(p) ==
  /\ phase = "running"
  /\ p \in DOMAIN pc
  /\ pc[p] = "start"
  /\ ~(~UseSource(p) /\ ~RunsInPlace)
  /\ UseOnlySource(p)
  /\ buffers' = Copy(buffers, "src", outputStore, SourceRegionInSourceImageCropped(p), p)
  /\ calls' = [calls EXCEPT
                 ![p] = Append(@, CopyCall("src", SourceRegionInSourceImageCropped(p), p))]
  /\ pc' = [pc EXCEPT ![p] = "done"]
  /\ UNCHANGED <<m_DestinationIndex, m_SourceRegion, m_InPlace, canRunInPlace,
                 attached, requestedRegion, phase, outputStore>>

\* lines 207-224, case 3: the destination is copied to the output
CopyDestinationFirst(p) ==
  /\ phase = "running"
  /\ p \in DOMAIN pc
  /\ pc[p] = "start"
  /\ ~(~UseSource(p) /\ ~RunsInPlace)
  /\ ~UseOnlySource(p)
  /\ CopiesDestinationFirst
  /\ buffers' = Copy(buffers, "dest", outputStore, p, p)
  /\ calls' = [calls EXCEPT ![p] = Append(@, CopyCall("dest", p, p))]
  /\ pc' = [pc EXCEPT ![p] = "paste"]
  /\ UNCHANGED <<m_DestinationIndex, m_SourceRegion, m_InPlace, canRunInPlace,
                 attached, requestedRegion, phase, outputStore>>

\* lines 226-229, case 3: the cropped source region is copied to the output
CopyCroppedSource(p) ==
  /\ phase = "running"
  /\ p \in DOMAIN pc
  /\ \/ pc[p] = "paste"
     \/ /\ pc[p] = "start"
        /\ ~(~UseSource(p) /\ ~RunsInPlace)
        /\ ~UseOnlySource(p)
        /\ ~CopiesDestinationFirst
  /\ buffers' = Copy(buffers, "src", outputStore,
                     SourceRegionInSourceImageCropped(p),
                     SourceRegionInDestinationImageCropped(p))
  /\ calls' = [calls EXCEPT
                 ![p] = Append(@, CopyCall("src", SourceRegionInSourceImageCropped(p),
                                           SourceRegionInDestinationImageCropped(p)))]
  /\ pc' = [pc EXCEPT ![p] = "done"]
  /\ UNCHANGED <<m_DestinationIndex, m_SourceRegion, m_InPlace, canRunInPlace,
                 attached, requestedRegion, phase, outputStore>>

\* one step of the ThreadedGenerateData call that was given the region p
ThreadedGenerateData(p) ==
  \/ CopyDestination(p)
  \/ CopySource(p)
  \/ CopyDestinationFirst(p)
  \/ CopyCroppedSource(p)

Configure ==
  \/ \E i \in DestinationIndexes : SetDestinationIndex(i)
  \/ \E r \in SourceRegions : SetSourceRegion(r)
  \/ InPlaceOn
  \/ InPlaceOff
  \/ SetDestinationImage
  \/ SetSourceImage

Next ==
  \/ Configure
  \/ \E req \in NonEmptyRegionsInside(DestinationGrid) : GenerateInputRequestedRegion(req)
  \/ PropagateRequestedRegionFails
  \/ BeforeThreadedGenerateData
  \/ \E p \in DOMAIN pc : ThreadedGenerateData(p)

Spec == Init /\ [][Next]_vars

\* every ThreadedGenerateData call has returned
Finished == phase = "running" /\ \A p \in DOMAIN pc : pc[p] = "done"

(* --------------- the scheduler as ThreadedGenerateData sees it ---------- *)
\* ThreadedGenerateData does not look at the requested region: a scheduler
\* may call it with any region of the output's container
DispatchUnchecked ==
  /\ phase = "requested"
  /\ \E p \in NonEmptyRegionsInside(DestinationGrid) : Dispatch({p})

NextUnchecked ==
  \/ Configure
  \/ \E req \in NonEmptyRegionsInside(DestinationGrid) : GenerateInputRequestedRegion(req)
  \/ PropagateRequestedRegionFails
  \/ DispatchUnchecked
  \/ \E p \in DOMAIN pc : ThreadedGenerateData(p)

SpecUnchecked == Init /\ [][NextUnchecked]_vars

(* ------------------------- what the claims speak of --------------------- *)
\* Region(DestinationIndex, SourceRegion.size)
Placement == Region(m_DestinationIndex, m_SourceRegion.size)

\* the output's requested region
Requested == RequestedOf("out")

\* SourceRegion.index - DestinationIndex
Delta == Minus(m_SourceRegion.index, m_DestinationIndex)

\* the value of an output cell, of a source cell, and of a destination cell
\* before the filter ran
Output(c) == buffers[outputStore][c]
SourceValue(c) == InitialBuffers["src"][c]
DestinationValue(c) == InitialBuffers["dest"][c]

\* ThreadedGenerateData(p) run from start to end on the containers b
Composite(b, p) ==
  LET out == IF RunsInPlace THEN "dest" ELSE "out" IN
  IF ~UseSource(p) /\ ~RunsInPlace
  THEN Copy(b, "dest", out, p, p)
  ELSE IF UseOnlySource(p)
  THEN Copy(b, "src", out, SourceRegionInSourceImageCropped(p), p)
  ELSE Copy(IF CopiesDestinationFirst THEN Copy(b, "dest", out, p, p) ELSE b,
            "src", out, SourceRegionInSourceImageCropped(p),
            SourceRegionInDestinationImageCropped(p))

\* the cells of the containers that the calls of p wrote and read
WriteSet(p) ==
  UNION {{<<outputStore, c>> : c \in Cells(calls[p][k].outRegion)} :
           k \in 1 .. Len(calls[p])}
ReadSet(p) ==
  UNION {{<<calls[p][k].from, c>> : c \in Cells(calls[p][k].inRegion)} :
           k \in 1 .. Len(calls[p])}

\* the overlap cases of a region
NoOverlap(p) == ~UseSource(p)
PartialOverlap(p) == UseSource(p) /\ ~UseOnlySource(p)

(* -------------------------------- claims -------------------------------- *)
\* C1: partition invariance.  When every region of the covering the scheduler
\* chose has been composited, in whatever order and interleaving the threads
\* took, every cell of the requested output region holds the value that one
\* ThreadedGenerateData call on the whole requested region leaves there; so
\* any two coverings of the requested region leave the same values.
PartitionInvariance ==
  Finished =>
    \A c \in Cells(Requested) :
      Output(c) = Composite(InitialBuffers, Requested)[outputStore][c]

\* several regions were composited, one that the paste region misses, one
\* that it overlaps in part, and the source region does not start at the
\* destination index
PartitionInvarianceWitness ==
  /\ Finished
  /\ Cardinality(DOMAIN pc) >= 2
  /\ \E p \in DOMAIN pc : NoOverlap(p)
  /\ \E p \in DOMAIN pc : PartialOverlap(p)
  /\ Delta # <<0, 0>>

\* C2: round trip.  When every region of the covering has been composited,
\* every output cell c of the requested region that lies in
\* Region(DestinationIndex, SourceRegion.size) holds the value of the source
\* cell c + (SourceRegion.index - DestinationIndex).
RoundTrip ==
  Finished =>
    \A c \in Cells(Placement) \cap Cells(Requested) :
      Output(c) = SourceValue(Plus(c, Delta))

\* a paste of several cells, split over two regions at least, from a source
\* region that does not start at the destination index
RoundTripWitness ==
  /\ Finished
  /\ Cardinality(Cells(Placement) \cap Cells(Requested)) >= 2
  /\ Cardinality({p \in DOMAIN pc : UseSource(p)}) >= 2
  /\ Delta # <<0, 0>>

\* C3: background preservation.  When every region of the covering has been
\* composited, every output cell of the requested region outside
\* Region(DestinationIndex, SourceRegion.size) equals the destination cell at
\* the same index, in place or not; when the paste region misses the
\* requested region this is every cell of the requested region.
BackgroundPreservation ==
  Finished =>
    /\ \A c \in Cells(Requested) \ Cells(Placement) : Output(c) = DestinationValue(c)
    /\ ~Crop(Placement, Requested).possible =>
         \A c \in Cells(Requested) : Output(c) = DestinationValue(c)

\* not in place, a region that the paste overlaps in part was composited
BackgroundPreservationWitness ==
  /\ Finished
  /\ ~RunsInPlace
  /\ \E p \in DOMAIN pc : PartialOverlap(p)
  /\ \E p \in DOMAIN pc : NoOverlap(p)

InPlaceNoCopyCall ==
  phase = "running" =>
    \A p \in DOMAIN pc :
      (RunsInPlace /\ NoOverlap(p)) =>
        /\ calls[p] = <<>>
        /\ \A c \in Cells(p) : Output(c) = DestinationValue(c)

\* C5, amended: in place, a region that the paste region misses issues no
\* copy from the destination and moves no cell: its only call is the copy
\* from the source, over two empty (default-constructed) regions, and its
\* output cells stay as the destination's.
InPlaceNoOverlapMovesNothing ==
  phase = "running" =>
    \A p \in DOMAIN pc :
      (RunsInPlace /\ NoOverlap(p)) =>
        /\ calls[p] = IF pc[p] = "done"
                      THEN <<CopyCall("src", DefaultRegion, DefaultRegion)>>
                      ELSE <<>>
        /\ WriteSet(p) = {} /\ ReadSet(p) = {}
        /\ \A c \in Cells(p) : Output(c) = DestinationValue(c)

\* in place, a region that the paste region misses has returned, and so has
\* one that it overlaps
InPlaceNoOverlapWitness ==
  /\ phase = "running"
  /\ RunsInPlace
  /\ \E p \in DOMAIN pc : NoOverlap(p) /\ pc[p] = "done"
  /\ \E p \in DOMAIN pc : UseSource(p) /\ pc[p] = "done"

InputsNeverMutated ==
  /\ buffers["dest"] = InitialBuffers["dest"]
  /\ buffers["src"] = InitialBuffers["src"]

\* C7, amended: the source is never changed, and the destination is not
\* changed when the filter does not run in place.  In place the output
\* writes the destination's container: the destination cells of the paste
\* region inside the requested region take the source's values, and no other
\* destination cell changes.
InputsMutatedOnlyInPlace ==
  /\ buffers["src"] = InitialBuffers["src"]
  /\ outputStore = "out" => buffers["dest"] = InitialBuffers["dest"]
  /\ outputStore = "dest" =>
       \A c \in Cells(DestinationGrid) :
         \/ buffers["dest"][c] = DestinationValue(c)
         \/ /\ c \in Cells(Placement) \cap Cells(Requested)
            /\ buffers["dest"][c] = SourceValue(Plus(c, Delta))
  /\ Finished /\ outputStore = "dest" =>
       \A c \in Cells(Placement) \cap Cells(Requested) :
         buffers["dest"][c] = SourceValue(Plus(c, Delta))

\* the filter ran in place and pasted into a part of the requested region
InputsMutatedWitness ==
  /\ Finished
  /\ outputStore = "dest"
  /\ buffers["dest"] # InitialBuffers["dest"]
  /\ \E c \in Cells(Requested) : c \notin Cells(Placement)

\* C8, as claimed: a region that is not contained in the requested output
\* region is refused by ThreadedGenerateData, which writes nothing.
PartitionPrecondition ==
  \A p \in DOMAIN pc :
    ~IsInside(Requested, p) => calls[p] = <<>> /\ buffers = InitialBuffers

\* C8, amended: ThreadedGenerateData does not compare its region with the
\* requested region.  A region that is not contained in it is composited as
\* any other: no error is raised, at least one copy call is issued, and when
\* the call returns the region's output cells hold the source's values inside
\* the paste region and the destination's outside.
UncheckedPartitionComposited ==
  /\ phase = "error" => pc = <<>>
  /\ \A p \in DOMAIN pc :
       (~IsInside(Requested, p) /\ pc[p] = "done") =>
         /\ phase = "running"
         /\ calls[p] # <<>>
         /\ \A c \in Cells(p) :
              Output(c) = IF c \in Cells(Placement)
                          THEN SourceValue(Plus(c, Delta))
                          ELSE DestinationValue(c)

\* a region outside the requested region, which the paste region overlaps in
\* part, was composited
UncheckedPartitionWitness ==
  \E p \in DOMAIN pc :
    /\ ~IsInside(Requested, p)
    /\ Cells(p) \cap Cells(Requested) = {}
    /\ pc[p] = "done"
    /\ PartialOverlap(p)

\* C9: disjoint write sets.  Every copy that ThreadedGenerateData issues for
\* a region writes only output cells of that region: the copy from the
\* destination writes exactly the region, the copy from the source writes the
\* part of the paste region inside it.  So no output cell is written for two
\* regions of the covering, and no region reads a cell written for another.
DisjointWriteSets ==
  phase = "running" =>
    /\ \A p \in DOMAIN pc :
         /\ \A k \in 1 .. Len(calls[p]) :
              /\ calls[p][k].from = "dest" => calls[p][k].outRegion = p
              /\ calls[p][k].from = "src" =>
                   Cells(calls[p][k].outRegion) = Cells(Placement) \cap Cells(p)
         /\ WriteSet(p) \subseteq {<<outputStore, c>> : c \in Cells(p)}
    /\ \A p, q \in DOMAIN pc :
         p # q => /\ WriteSet(p) \cap WriteSet(q) = {}
                  /\ ReadSet(p) \cap WriteSet(q) = {}

\* two regions of one covering have both written cells from the source
DisjointWriteSetsWitness ==
  /\ phase = "running"
  /\ \E p, q \in DOMAIN pc :
       /\ p # q
       /\ \E k \in 1 .. Len(calls[p]) :
            calls[p][k].from = "src" /\ Cells(calls[p][k].outRegion) # {}
       /\ \E k \in 1 .. Len(calls[q]) :
            calls[q][k].from = "src" /\ Cells(calls[q][k].outRegion) # {}

\* the part of the paste region inside p, and a region moved by an offset
Overlap(p) == Crop(Placement, p).region
Translate(r, delta) == Region(Plus(r.index, delta), r.size)

\* C10: ordering in the partial overlap case.  For a region that the paste
\* region overlaps but does not cover, the copy destination[region] ->
\* output[region] is issued exactly when the filter does not run in place,
\* the copy source[translate(overlap, delta)] -> output[overlap] is always
\* issued, after the copy from the destination when there is one, and the
\* overlap then holds the source's values.
PartialOverlapOrdering ==
  phase = "running" =>
    \A p \in DOMAIN pc :
      PartialOverlap(p) =>
        LET destinationCopy == CopyCall("dest", p, p)
            sourceCopy == CopyCall("src", Translate(Overlap(p), Delta), Overlap(p))
        IN  /\ pc[p] = "start" => calls[p] = <<>>
            /\ pc[p] = "paste" => ~RunsInPlace /\ calls[p] = <<destinationCopy>>
            /\ pc[p] = "done" =>
                 /\ calls[p] = IF RunsInPlace
                               THEN <<sourceCopy>>
                               ELSE <<destinationCopy, sourceCopy>>
                 /\ \A c \in Cells(Overlap(p)) :
                      Output(c) = SourceValue(Plus(c, Delta))

\* a region that the paste region overlaps in part has copied the
\* destination and then the source
PartialOverlapOrderingWitness ==
  \E p \in DOMAIN pc :
    /\ PartialOverlap(p)
    /\ pc[p] = "done"
    /\ Len(calls[p]) = 2
    /\ calls[p][1].from = "dest" /\ calls[p][2].from = "src"

\* C11: source reads stay inside the requested source region.  For every
\* region that the paste region overlaps, the region a copy reads from the
\* source has the size of the output region it is copied to and lies inside
\* SourceRegion; so no copy reads a source cell outside the region that
\* GenerateInputRequestedRegion requested from the source.
SourceReadsInsideSourceRegion ==
  phase = "running" =>
    \A p \in DOMAIN pc : \A k \in 1 .. Len(calls[p]) :
      calls[p][k].from = "src" =>
        /\ UseSource(p) =>
             /\ calls[p][k].inRegion.size = calls[p][k].outRegion.size
             /\ IsInside(m_SourceRegion, calls[p][k].inRegion)
        /\ Cells(calls[p][k].inRegion) \subseteq Cells(RequestedOf("src"))

\* a region has read a part of SourceRegion that does not start where
\* SourceRegion starts, because the paste region was cropped on its low side
SourceReadsWitness ==
  \E p \in DOMAIN pc :
    /\ PartialOverlap(p)
    /\ pc[p] = "done"
    /\ \E k \in 1 .. Len(calls[p]) :
         /\ calls[p][k].from = "src"
         /\ Cells(calls[p][k].inRegion) # {}
         /\ calls[p][k].inRegion.index # m_SourceRegion.index
         /\ calls[p][k].inRegion # m_SourceRegion

====
